---- MODULE Spec2Model ----
(***************************************************************************)
(* Training-data pipeline of PCA-Kinematics                                *)
(* (Source/Create_Training_Data.py, Create_Training_DataWidget).           *)
(*                                                                         *)
(* A surface (vtkPolyData) is abstracted to the record                     *)
(*   [topo, npts, pose, by]                                                *)
(* topo = <<label, subject>>: the extraction whose points (count and       *)
(*        order) the surface carries;                                      *)
(* npts = its number of points (0 for the empty surface of an absent       *)
(*        label);                                                          *)
(* pose = where the points are, an element of the cyclic group of          *)
(*        NumPoses rigid placements;                                       *)
(* by   = the filter run whose output object this is (object identity).    *)
(*                                                                         *)
(* Python lists are sequences: index i of the code is position i + 1.      *)
(***************************************************************************)
EXTENDS Integers, Sequences, FiniteSets, TLC

\* ------------------------------------------------------------------ bounds
\* Largest bone label present in a segmented image (labels 1..MaxLabel, 0 = background).
MaxLabel == 3
\* Largest number of image files in the input folder.
MaxSubjects == 3
\* Largest number of characters of a file name given to alphanum_key.
MaxNameLen == 3
\* Largest number of names in a listing that is sorted by alphanum_key.
MaxListed == 2
\* Number of distinct rigid placements a scanned subject can have.
NumPoses == 2
\* Largest number of files in a folder of surfaces.
MaxMeshes == 6
\* Largest number of points of a surface file.
MaxPoints == 2
\* Largest number of files in a training folder that is not a full set of
\* surfaces in correspondence.
MaxUneven == 2
\* Largest number of files in a folder of surfaces chosen for fitting.
MaxFitted == 1
\* Number of shape models after which no further training folder is chosen.
MaxBuilds == 1
\* Largest number of coefficient sliders off zero at a time.
MaxMoved == 1
\* Largest number of handler bodies under way at a time.
MaxDepth == 2
\* Largest number of handler calls delivered while one outermost body is under way.
MaxDelivered == 1

Labels == 1..MaxLabel
Poses == 0..(NumPoses - 1)

\* ------------------------------------------------------------- environment
\* A file of the input folder is [stem, ext, present, pose]: its name
\* "img<stem>.<ext>" and, for an image, the labelled volume it holds (the labels
\* present besides background, and the placement of the subject in the scanner).
\* Volumes in which at most one bone label is missing.
LabelSets == {Labels} \cup {Labels \ {l} : l \in Labels}

\* Folders of n images "img1.nii" .. "img<n>.nii". Placements are relative to the
\* first scan; at most one (label, subject) pair is absent, in the first or the
\* second image.
FoldersOf(n) ==
    { f \in [1..n -> [stem : 1..n, ext : {"nii"}, present : LabelSets, pose : Poses]] :
        /\ \A k \in 1..n : f[k].stem = k
        /\ f[1].pose = 0
        /\ \A k \in 1..n : k > 2 => f[k].present = Labels
        /\ Cardinality({k \in 1..n : f[k].present # Labels}) <= 1 }

Folders == UNION { FoldersOf(n) : n \in 1..MaxSubjects }

\* The endings of the names found in an input folder: NIfTI images, the header
\* and image files of Analyze images, and other files; in the order of their
\* text (".hdr" < ".img" < ".nii" < ".txt").
Exts == {"hdr", "img", "nii", "txt"}
ExtRank(e) == CASE e = "hdr" -> 1 [] e = "img" -> 2 [] e = "nii" -> 3 [] OTHER -> 4

\* Folders of up to MaxSubjects files "img<stem>.<ext>" of any ending, listed
\* in the order of their names, the first of them an image (the reference-bone
\* slider is set from it); every volume holds every label, placed alike.
MixedFolders ==
    { f \in UNION { [1..n -> [stem : 1..MaxSubjects, ext : Exts,
                              present : {Labels}, pose : {0}]] : n \in 1..MaxSubjects } :
        /\ f[1].ext # "txt"
        /\ \A k \in 1..(Len(f) - 1) :
              \/ f[k].stem < f[k + 1].stem
              \/ (f[k].stem = f[k + 1].stem /\ ExtRank(f[k].ext) < ExtRank(f[k + 1].ext)) }

\* ------------------------------------------------------------------- state
VARIABLES
    folder,                 \* the input directory as os.listdir returns it
    lineedit,               \* text of the bone-label line edit, parsed: <<-1>> or a list
    ref_label,              \* self.ref_label
    slider_min, slider_max, \* self.Ref_Bone_Slider.minimum / .maximum
    num_files,              \* self.num_files
    Save_Extracted_Bones_Separately,
    Save_Registered_Bones_Separately,
    Skip_Registration,
    Remove_Ref_Bone,
    directory_chosen,       \* len(self.directory_path) > 0
    pc,                     \* position of onCompute
    bone_labels,            \* self.bone_labels: [kind, vals]
    max_bone_label,         \* self.max_bone_label
    files,                  \* self.files
    file_list,              \* len(self.file_list)
    images_list,            \* images_list
    polydata_list,          \* polydata_list[label] : list of surfaces
    reference_shapes,       \* reference_shapes[label] : list of surfaces
    li, fi,                 \* loop positions: index into bone_labels, file index
    output,                 \* the output directory: set of [path, content]
    icp_calls,              \* history: every IterativeClosestPoint call, in order
    error,                  \* the exception that ended the run, or "none"
    progress,               \* the value of the progress bar of the training-data widget
    smoothing_iterations,   \* self.smoothing_iterations
    decimate_surface,       \* self.decimate_surface, in percent
    mesh_pc,                \* position of Smooth_Surface
    stages,                 \* history: the filters run on the surface at hand, in order
    listing,                \* what os.listdir returned: file names, each a string of characters
    sorted_files            \* the list after .sort(key=self.alphanum_key), or <<>> before it

\* The attributes of PCA_KinematicsWidget. An attribute that holds [] or does
\* not exist yet is the empty sequence, otherwise a sequence of one element.
VARIABLES
    pca_directory_path,     \* self.directory_path: <<>> or <<the folder chosen>>
    Directory_Input_Surfaces_Fitting,
    fitting_output_directory_path,
    New_Folder_Selected,
    Already_Running,
    reseting_state,
    EV,                     \* <<self.FirstEV, ..., self.FifthEV>>
    NumEVs,
    num_tuples,             \* self.num_tuples, 0 before the first loading
    pca_model,              \* self.pca_model: <<>> or <<the vtkPCAAnalysisFilter>>
    pca_polydata_list,      \* self.polydata_list
    pca_files,              \* self.files
    output_shape,           \* self.output_shape
    rendered,               \* the surface of the model node in the scene
    fitted_coefficients,    \* self.fitted_coefficients
    written,                \* the two text files in the fitting output folder
    stack,                  \* the handler bodies under way, innermost last
    delivered,              \* the handler calls delivered since the outermost body began
    raised                  \* the class of the exception the latest handler call ended with, or "none"

config == <<folder, lineedit, ref_label, slider_min, slider_max, num_files,
            Save_Extracted_Bones_Separately, Save_Registered_Bones_Separately,
            Skip_Registration, Remove_Ref_Bone, directory_chosen>>
run == <<pc, bone_labels, max_bone_label, files, file_list, images_list,
         polydata_list, reference_shapes, li, fi, output, icp_calls, error, progress>>
\* The state of one Smooth_Surface call and of the options it reads.
smoothing == <<smoothing_iterations, decimate_surface, mesh_pc, stages>>
\* The state of the sorting of a listing.
sorting == <<listing, sorted_files>>
\* The state of the PCA_Kinematics widget.
kinematics == <<pca_directory_path, Directory_Input_Surfaces_Fitting,
                fitting_output_directory_path, New_Folder_Selected, Already_Running,
                reseting_state, EV, NumEVs, num_tuples, pca_model, pca_polydata_list,
                pca_files, output_shape, rendered, fitted_coefficients, written,
                stack, delivered, raised>>
\* What the steps of the training-data run leave alone.
others == <<smoothing, sorting, kinematics>>
\* What the steps of Smooth_Surface and of the sorting leave alone.
besidesSmoothing == <<config, run, sorting, kinematics>>
besidesSorting == <<config, run, smoothing, kinematics>>
\* What the handlers of the PCA_Kinematics widget leave alone.
besidesKinematics == <<config, run, smoothing, sorting>>
vars == <<config, run, others>>

\* ----------------------------------------------------------------- helpers
Max(S) == CHOOSE x \in S : \A y \in S : y <= x

Range(s) == { s[k] : k \in DOMAIN s }

\* range(a, b) of Python as a sequence.
PyRange(a, b) == [k \in 1..(IF b > a THEN b - a ELSE 0) |-> a + k - 1]

\* self.files.sort(key=self.alphanum_key): the stable sort by the key
\* ["img", stem, ".ext"]; insertion of each file after the files not greater.
KeyLessEq(a, b) ==
    \/ a.stem < b.stem
    \/ (a.stem = b.stem /\ ExtRank(a.ext) <= ExtRank(b.ext))

RECURSIVE InsertSorted(_, _)
InsertSorted(s, x) ==
    IF s = <<>> THEN <<x>>
    ELSE IF KeyLessEq(s[Len(s)], x) THEN Append(s, x)
    ELSE Append(InsertSorted(SubSeq(s, 1, Len(s) - 1), x), s[Len(s)])

RECURSIVE SortFiles(_)
SortFiles(s) ==
    IF s = <<>> THEN <<>>
    ELSE InsertSorted(SortFiles(SubSeq(s, 1, Len(s) - 1)), s[Len(s)])

\* ---------------------------------------------------------------- surfaces
\* The reference=[] default of IterativeClosestPoint: no reference surface.
NoReference == [topo |-> <<0, 0>>, npts |-> 0, pose |-> 0, by |-> <<"none", 0, 0>>]

\* Extract_Surface(image, label) for the image of subject position s: the
\* thresholded label's isosurface after Smooth_Surface. A label absent from the
\* volume gives the empty surface; a present one a surface whose point count
\* and order are particular to this (label, subject) extraction.
Extract_Surface(image, label, s) ==
    [topo |-> <<label, s>>,
     npts |-> IF label \in image.present THEN 4 * label + s ELSE 0,
     pose |-> image.pose,
     by   |-> <<"extract", label, s>>]

\* vtkIterativeClosestPointTransform.Update(): the transform that carries the
\* source onto the target. With an empty source or target VTK reports an error
\* and leaves the transform at the identity.
IcpTransform(source, target) ==
    IF source.npts = 0 \/ target.npts = 0 THEN 0
    ELSE (target.pose + NumPoses - source.pose) % NumPoses

\* vtkTransformPolyDataFilter: a new surface, the input's points moved by T.
TransformPolyData(surface, T, call) ==
    [surface EXCEPT !.pose = (@ + T) % NumPoses, !.by = call]

\* The surface IterativeClosestPoint transforms and returns: the reference when
\* one is given, the source otherwise.
IcpMoved(source, reference) ==
    IF reference # NoReference THEN reference ELSE source

\* IterativeClosestPoint(source, target, reference): the returned surface.
IterativeClosestPoint(source, target, reference, call) ==
    TransformPolyData(IcpMoved(source, reference), IcpTransform(source, target), call)

\* The record of one IterativeClosestPoint call kept in icp_calls.
IcpCall(pass, label, i, source, target, reference) ==
    [pass |-> pass, label |-> label, i |-> i,
     source |-> source, target |-> target, reference |-> reference,
     T |-> IcpTransform(source, target),
     result |-> IterativeClosestPoint(source, target, reference, <<pass, label, i + 1>>)]

\* Total number of points of the first n surfaces of a list.
RECURSIVE SumPoints(_, _)
SumPoints(list, n) ==
    IF n = 0 THEN 0 ELSE SumPoints(list, n - 1) + list[n].npts

\* Combine_Surfaces(polydata_list): vtkAppendPolyData, one surface holding the
\* points of every input in order, each input's point ids offset by the number
\* of points before it.
Combine_Surfaces(list) ==
    [npts  |-> SumPoints(list, Len(list)),
     parts |-> [k \in 1..Len(list) |->
                  [topo |-> list[k].topo, npts |-> list[k].npts, pose |-> list[k].pose,
                   offset |-> SumPoints(list, k - 1)]]]

\* ---------------------------------------------------------- Smooth_Surface
\* The sliders of the smoothing options: iterations 0..30, decimation 0..0.9 in
\* steps of 0.05 (here in percent).
Bone_Smoothing_Its_Maximum == 30
Bone_Decimate_Maximum == 90
Bone_Decimate_SingleStep == 5
SmoothingValues == 0..Bone_Smoothing_Its_Maximum
DecimateValues ==
    { Bone_Decimate_SingleStep * k : k \in 0..(Bone_Decimate_Maximum \div Bone_Decimate_SingleStep) }

\* The widget as setup() leaves it: 10 iterations, no decimation.
InitSmoothing ==
    /\ smoothing_iterations = 10
    /\ decimate_surface = 0
    /\ mesh_pc = "idle"
    /\ stages = <<>>

onBone_Smoothing_Its_SliderChange ==
    /\ mesh_pc = "idle"
    /\ \E v \in SmoothingValues \ {smoothing_iterations} : smoothing_iterations' = v
    /\ UNCHANGED <<decimate_surface, mesh_pc, stages>>

onBone_Decimate_SliderChange ==
    /\ mesh_pc = "idle"
    /\ \E v \in DecimateValues \ {decimate_surface} : decimate_surface' = v
    /\ UNCHANGED <<smoothing_iterations, mesh_pc, stages>>

\* (mutant of SmoothingRuns: the smoothing filter runs for every setting)
SmoothingRunsAlways == TRUE
\* Line 908: the Laplacian smoothing runs.
SmoothingRuns == smoothing_iterations > 0
\* Line 918: the decimation runs (0 < self.decimate_surface < 1).
DecimateRuns == decimate_surface > 0 /\ decimate_surface < 100

\* One filter of Smooth_Surface: it runs (or is skipped) and the call moves on.
Filter(at, name, runs, next) ==
    /\ mesh_pc = at
    /\ stages' = IF runs THEN Append(stages, name) ELSE stages
    /\ mesh_pc' = next
    /\ UNCHANGED <<smoothing_iterations, decimate_surface>>

\* Line 820: Extract_Surface hands the marching-cubes surface to Smooth_Surface.
Smooth_Surface_Call ==
    /\ mesh_pc = "idle"
    /\ stages' = <<>>
    /\ mesh_pc' = "boneNormals"
    /\ UNCHANGED <<smoothing_iterations, decimate_surface>>

\* Lines 894-900, 903-906, 908-916, 918-926, 929-932 and 935-938.
BoneNormals == Filter("boneNormals", "normals", TRUE, "cleanPolyData")
CleanPolyData == Filter("cleanPolyData", "clean", TRUE, "smoothingFilter")
SmoothingFilter == Filter("smoothingFilter", "smooth", SmoothingRuns, "deci")
DecimatePro == Filter("deci", "decimate", DecimateRuns, "cleanPolyData2")
CleanPolyData2 == Filter("cleanPolyData2", "clean", TRUE, "normals")
Normals == Filter("normals", "normals", TRUE, "return")

\* Line 940: the surface is returned, and with it the call is over.
Smooth_Surface_Return ==
    /\ mesh_pc = "return"
    /\ mesh_pc' = "idle"
    /\ stages' = <<>>
    /\ UNCHANGED <<smoothing_iterations, decimate_surface>>

\* ------------------------------------------------------------- alphanum_key
\* File names are strings over these characters; a string is the sequence of
\* its characters.
Chars == {"a", "0", "1", "2"}
Digits == {"0", "1", "2"}
Names == UNION { [1..n -> Chars] : n \in 1..MaxNameLen }

\* int() of one digit, and the code point order of the characters.
DigitValue(c) == CASE c = "0" -> 0 [] c = "1" -> 1 [] OTHER -> 2
Ord(c) == CASE c = "0" -> 48 [] c = "1" -> 49 [] c = "2" -> 50 [] OTHER -> 97

\* re.split('([0-9]+)', s): the runs of s, text and digit runs in turn, the
\* first and the last a (possibly empty) text run.
RECURSIVE SplitFrom(_, _, _)
SplitFrom(s, i, runs) ==
    IF i > Len(s)
    THEN IF Len(runs) % 2 = 0 THEN Append(runs, <<>>) ELSE runs
    ELSE IF (s[i] \in Digits) = (Len(runs) % 2 = 0)
         THEN SplitFrom(s, i + 1, [runs EXCEPT ![Len(runs)] = Append(@, s[i])])
         ELSE SplitFrom(s, i + 1, Append(runs, <<s[i]>>))

re_split(s) == SplitFrom(s, 1, << <<>> >>)

\* int(c) of a string of digits.
RECURSIVE IntOf(_)
IntOf(c) ==
    IF c = <<>> THEN 0
    ELSE 10 * IntOf(SubSeq(c, 1, Len(c) - 1)) + DigitValue(c[Len(c)])

\* (mutant of tryint: the chunk is kept as a string)
tryintNever(c) == [type |-> "str", val |-> c]
\* tryint(c): int(c) when c is a number, c itself when int() raises.
tryint(c) ==
    IF c # <<>> /\ \A k \in DOMAIN c : c[k] \in Digits
    THEN [type |-> "int", val |-> IntOf(c)]
    ELSE [type |-> "str", val |-> c]

\* alphanum_key(s): "a23a" -> ["a", 23, "a"].
alphanum_key(s) == LET chunks == re_split(s) IN [k \in DOMAIN chunks |-> tryint(chunks[k])]

\* a < b of two Python strings: by the first character that differs, a proper
\* prefix first.
RECURSIVE StrLess(_, _)
StrLess(a, b) ==
    IF b = <<>> THEN FALSE
    ELSE IF a = <<>> THEN TRUE
    ELSE IF a[1] # b[1] THEN Ord(a[1]) < Ord(b[1])
    ELSE StrLess(Tail(a), Tail(b))

\* x < y of two chunks: "lt" when it holds, "ge" when not, "TypeError" when
\* one is an int and the other a str.
ChunkLess(x, y) ==
    IF x.type # y.type THEN "TypeError"
    ELSE IF x.type = "int" THEN (IF x.val < y.val THEN "lt" ELSE "ge")
    ELSE IF StrLess(x.val, y.val) THEN "lt" ELSE "ge"

\* k1 < k2 of two Python lists: decided by the first position where the chunks
\* are not equal, the shorter list first when there is none.
RECURSIVE ListLess(_, _)
ListLess(k1, k2) ==
    IF k2 = <<>> THEN "ge"
    ELSE IF k1 = <<>> THEN "lt"
    ELSE IF k1[1] # k2[1] THEN ChunkLess(k1[1], k2[1])
    ELSE ListLess(Tail(k1), Tail(k2))

\* The comparison list.sort makes of two names.
KeyLess(a, b) == ListLess(alphanum_key(a), alphanum_key(b))

\* files.sort(key=self.alphanum_key): a stable sort; each name goes behind the
\* names it is not less than. A comparison that raises makes the sort raise.
RECURSIVE InsertName(_, _)
InsertName(s, x) ==
    IF s = <<>> THEN <<x>>
    ELSE IF KeyLess(x, s[Len(s)]) = "lt"
         THEN Append(InsertName(SubSeq(s, 1, Len(s) - 1), x), s[Len(s)])
         ELSE Append(s, x)

RECURSIVE SortNames(_)
SortNames(s) ==
    IF s = <<>> THEN <<>>
    ELSE InsertName(SortNames(SubSeq(s, 1, Len(s) - 1)), s[Len(s)])

SortRaises(s) ==
    \E i, j \in DOMAIN s : KeyLess(s[i], s[j]) = "TypeError"

\* Nothing is listed.
InitSorting ==
    /\ listing = <<>>
    /\ sorted_files = <<>>

\* Lines 531-534 (and lines 1108-1109 of PCA_Kinematics.py, the same code):
\* the folder is listed and the list is sorted.
Listings ==
    { l \in UNION { [1..n -> Names] : n \in 1..MaxListed } :
        \A i, j \in DOMAIN l : i # j => l[i] # l[j] }

ListFolder ==
    /\ listing = <<>>
    /\ listing' \in Listings
    /\ UNCHANGED sorted_files

SortListing ==
    /\ listing # <<>>
    /\ sorted_files = <<>>
    /\ sorted_files' = IF SortRaises(listing) THEN <<"TypeError">> ELSE SortNames(listing)
    /\ UNCHANGED listing

\* ==================================================== PCA_KinematicsWidget
\* A file of a folder of surfaces: its name (its place in sorted order), the
\* last three characters of the name and, for a surface, its number of points.
SurfaceFile(k, e, p) == [name |-> k, ext |-> e, points |-> p]

\* The last file of a folder: a PLY surface of any number of points, or a file
\* that is no surface.
LastFiles(k) ==
    {SurfaceFile(k, "ply", p) : p \in 1..MaxPoints} \cup {SurfaceFile(k, "txt", 0)}

\* Folders of at most max files, as os.listdir and the sort list them: PLY
\* surfaces of one point count, then the last file.
FoldersUpTo(max) ==
    {<<>>} \cup
    UNION { { [k \in 1..n |-> IF k < n THEN SurfaceFile(k, "ply", 1) ELSE last] :
                last \in LastFiles(n) } : n \in 1..max }

\* The folders the user can choose for fitting.
FittingFolders == FoldersUpTo(MaxFitted)

\* The folders the user can choose for training: small ones, and a folder of
\* MaxMeshes surfaces in correspondence.
SurfaceFolders ==
    FoldersUpTo(MaxUneven) \cup {[k \in 1..MaxMeshes |-> SurfaceFile(k, "ply", 1)]}

\* The number of coefficient sliders, and of coefficients onCompute applies.
NumSliders == 5
EVValues == {0, 1}
Zeros == [k \in 1..NumSliders |-> 0]

\* The widget as __init__ and setup() leave it.
InitKinematics ==
    /\ pca_directory_path = <<>>
    /\ Directory_Input_Surfaces_Fitting = <<>>
    /\ fitting_output_directory_path = <<>>
    /\ New_Folder_Selected = FALSE
    /\ Already_Running = FALSE
    /\ reseting_state = FALSE
    /\ EV = Zeros
    /\ NumEVs = 5
    /\ num_tuples = 0
    /\ pca_model = <<>>
    /\ pca_polydata_list = <<>>
    /\ pca_files = <<>>
    /\ output_shape = <<>>
    /\ rendered = <<>>
    /\ fitted_coefficients = <<>>
    /\ written = <<>>
    /\ stack = <<>>
    /\ delivered = 0
    /\ raised = "none"

\* A handler body under way: the processEvents call it stands at, its locals,
\* whether its Load_Surface_From_Directory was called by the fitting procedure,
\* and the values it has passed to progressBar.setValue.
Frame(at) == [at |-> at, listed |-> <<>>, i |-> 0, polydata |-> <<>>, params |-> <<>>,
              fitting |-> FALSE, passed |-> <<>>]
Top == stack[Len(stack)]
At(at) == Len(stack) > 0 /\ Top.at = at
Return == SubSeq(stack, 1, Len(stack) - 1)
Goto(frame) == [stack EXCEPT ![Len(stack)] = frame]

\* The body passes value to progressBar.setValue and goes on to the
\* processEvents call of frame.
Advance(frame, value) == Goto([frame EXCEPT !.passed = Append(Top.passed, value)])

\* Slicer has crashed: no event is delivered any more.
Crashed == At("crashed")

\* The test of lines 817 and 1282.
RunningIgnored == FALSE
Running == Already_Running = TRUE

\* onCompute up to its first processEvents (lines 803-830).
onCompute_Call ==
    IF pca_directory_path = <<>>
    THEN /\ raised' = "ValueError"
         /\ UNCHANGED <<Already_Running, stack>>
    ELSE IF Running
    THEN /\ raised' = "none"
         /\ UNCHANGED <<Already_Running, stack>>
    ELSE /\ Len(stack) < MaxDepth
         /\ Already_Running' = TRUE
         /\ stack' = Append(stack, Frame("830"))
         /\ raised' = "none"

\* What a coefficient slider and the buttons that only call onCompute leave alone.
besidesRequest == <<pca_directory_path, Directory_Input_Surfaces_Fitting,
                    fitting_output_directory_path, New_Folder_Selected, reseting_state,
                    NumEVs, num_tuples, pca_model, pca_polydata_list, pca_files,
                    output_shape, rendered, fitted_coefficients, written>>

\* The computeButton, a rendering checkbox or a colour slider: onCompute is called.
onComputeButton ==
    /\ ~Crashed
    /\ onCompute_Call
    /\ UNCHANGED <<EV, besidesRequest>>

\* The k-th coefficient slider is moved (lines 620-653).
onEVSliderChange(k) ==
    /\ ~Crashed
    /\ \E newValue \in EVValues \ {EV[k]} :
          /\ Cardinality({j \in 1..NumSliders : [EV EXCEPT ![k] = newValue][j] # 0}) <= MaxMoved
          /\ EV' = [EV EXCEPT ![k] = newValue]
    /\ IF reseting_state = FALSE
       THEN onCompute_Call
       ELSE raised' = "none" /\ UNCHANGED <<Already_Running, stack>>
    /\ UNCHANGED besidesRequest

onFirstEVSliderChange == onEVSliderChange(1)
onSecondEVSliderChange == onEVSliderChange(2)
onThirdEVSliderChange == onEVSliderChange(3)
onFourthEVSliderChange == onEVSliderChange(4)
onFifthEVSliderChange == onEVSliderChange(5)

\* The sliders go back to zero without a computation each, then onCompute is called.
onResetButton ==
    /\ ~Crashed
    /\ EV # Zeros
    /\ EV' = Zeros
    /\ onCompute_Call
    /\ UNCHANGED besidesRequest

\* The number of models built so far.
Builds == IF pca_model = <<>> THEN 0 ELSE pca_model[1].build

\* A training folder is chosen.
PCA_onDirectoryButtonClick ==
    /\ ~Crashed
    /\ Builds < MaxBuilds
    /\ \E f \in SurfaceFolders : pca_directory_path' = <<f>>
    /\ New_Folder_Selected' = TRUE
    /\ raised' = "none"
    /\ UNCHANGED <<Directory_Input_Surfaces_Fitting, fitting_output_directory_path,
                   Already_Running, reseting_state, EV, NumEVs, num_tuples, pca_model,
                   pca_polydata_list, pca_files, output_shape, rendered,
                   fitted_coefficients, written, stack>>

onDirectorySurfaceFittingButtonClick ==
    /\ ~Crashed
    /\ \E f \in FittingFolders : Directory_Input_Surfaces_Fitting' = <<f>>
    /\ raised' = "none"
    /\ UNCHANGED <<pca_directory_path, fitting_output_directory_path, New_Folder_Selected,
                   Already_Running, reseting_state, EV, NumEVs, num_tuples, pca_model,
                   pca_polydata_list, pca_files, output_shape, rendered,
                   fitted_coefficients, written, stack>>

onDirectoryFittingOutputButtonClick ==
    /\ ~Crashed
    /\ fitting_output_directory_path' = <<"out">>
    /\ raised' = "none"
    /\ UNCHANGED <<pca_directory_path, Directory_Input_Surfaces_Fitting, New_Folder_Selected,
                   Already_Running, reseting_state, EV, NumEVs, num_tuples, pca_model,
                   pca_polydata_list, pca_files, output_shape, rendered,
                   fitted_coefficients, written, stack>>

\* What the steps of a handler body leave alone.
chosen == <<pca_directory_path, Directory_Input_Surfaces_Fitting,
            fitting_output_directory_path>>

\* Load_Surface_From_Directory takes the files whose name ends in stl or ply.
IsSurface(f) == f.ext \in {"stl", "ply"}
Surfaces(listed) == SelectSeq(listed, IsSurface)
SurfaceNames(listed) == [k \in DOMAIN Surfaces(listed) |-> Surfaces(listed)[k].name]

\* The test of line 1181: the surfaces have one and the same number of points.
PointsAgreeAlways(polydata) == TRUE
PointsAgree(polydata) == Cardinality({polydata[k].points : k \in DOMAIN polydata}) = 1

\* vtkPCAAnalysisFilter.GetShapeParameters reads one eigenvalue and one
\* eigenvector per parameter, the filter holding as many as it was given
\* surfaces, and one row of the eigenvectors per coordinate of the surface.
FitBeyond(polydata) ==
    \/ num_tuples > pca_model[1].meshes
    \/ \E k \in DOMAIN polydata : polydata[k].points > pca_model[1].points

\* The table Fit_Polydata computes: one row per surface, num_tuples columns.
Coefficients(polydata, defined) ==
    [rows |-> [k \in DOMAIN polydata |-> polydata[k].name], cols |-> num_tuples,
     defined |-> defined]

\* Fit_Polydata(self.pca_model, self.polydata_list, self.num_tuples), lines
\* 1038-1101: names is self.files as the loading left it.
Fit_Polydata(polydata, names) ==
    \/ /\ FitBeyond(polydata)
       /\ stack' = <<Frame("crashed")>>
       /\ UNCHANGED <<fitted_coefficients, written, raised>>
    \/ IF Len(names) < Len(polydata)
       THEN /\ stack' = Return
            /\ raised' = "IndexError"
            /\ UNCHANGED <<fitted_coefficients, written>>
       ELSE \E defined \in IF FitBeyond(polydata) THEN {FALSE} ELSE {TRUE} :
              /\ fitted_coefficients' = << Coefficients(polydata, defined) >>
              /\ written' = << [Fitted_Model_Coefficients |-> Coefficients(polydata, defined),
                                Files_Fitted |-> names] >>
              /\ stack' = Advance(Frame("1101"), 0)
              /\ UNCHANGED raised

\* The end of Load_Surface_From_Directory (lines 1170-1194) and what its caller
\* does up to its next processEvents: line 843-848 of onCompute, or lines
\* 1253-1256 of the fitting procedure.
Load_Return(polydata, names, fitting) ==
    IF ~PointsAgree(polydata)
    THEN /\ stack' = Return
         /\ raised' = "ValueError"
         /\ UNCHANGED <<pca_polydata_list, fitted_coefficients, written>>
    ELSE IF fitting
    THEN /\ pca_polydata_list' = polydata
         /\ Fit_Polydata(polydata, names)
    ELSE /\ pca_polydata_list' = polydata
         /\ stack' = Advance(Frame("848"), 50)
         /\ UNCHANGED <<raised, fitted_coefficients, written>>

\* Lines 1108-1131: the folder is listed, num_tuples and names are set, and the
\* loop reaches its first processEvents.
Load_Begin(listed, fitting) ==
    /\ num_tuples' = NumEVs
    /\ pca_files' = <<>>
    /\ IF Len(listed) = 0
       THEN Load_Return(<<>>, <<>>, fitting)
       ELSE /\ stack' = Advance([Frame("1131") EXCEPT !.listed = listed, !.i = 1,
                                                      !.fitting = fitting], 0)
            /\ UNCHANGED <<pca_polydata_list, raised, fitted_coefficients, written>>

\* Lines 834-843 and 1108-1131, or lines 834 and 880-890 when no model is built.
Compute_Begin ==
    /\ At("830")
    /\ IF pca_model = <<>> \/ New_Folder_Selected = TRUE
       THEN /\ New_Folder_Selected' = FALSE
            /\ Load_Begin(pca_directory_path[1], FALSE)
       ELSE /\ stack' = Advance([Frame("890") EXCEPT !.params = EV], 90)
            /\ UNCHANGED <<New_Folder_Selected, num_tuples, pca_files, pca_polydata_list,
                           raised, fitted_coefficients, written>>
    /\ UNCHANGED <<chosen, Already_Running, reseting_state, EV, NumEVs, pca_model,
                   output_shape, rendered>>

\* One turn of the loop of lines 1127-1168, and lines 1170-1194 after the last.
LoadFile ==
    /\ At("1131")
    /\ LET f == Top.listed[Top.i]
           polydata == IF IsSurface(f) THEN Append(Top.polydata, f) ELSE Top.polydata
           names == IF IsSurface(f) THEN Append(pca_files, f.name) ELSE pca_files
       IN  /\ pca_files' = names
           /\ IF Top.i < Len(Top.listed)
              THEN /\ stack' = Advance([Top EXCEPT !.i = @ + 1, !.polydata = polydata],
                                       (Top.i * 100) \div Len(Top.listed))
                   /\ UNCHANGED <<pca_polydata_list, raised, fitted_coefficients, written>>
              ELSE Load_Return(polydata, names, Top.fitting)
    /\ UNCHANGED <<chosen, New_Folder_Selected, Already_Running, reseting_state, EV, NumEVs,
                   num_tuples, pca_model, output_shape, rendered>>

\* Lines 849-860: the model is built from the surfaces loaded.
CreateModel ==
    /\ At("848")
    /\ NumEVs' = Len(pca_polydata_list) - 1
    /\ pca_model' = << [build |-> Builds + 1,
                        meshes |-> Len(pca_polydata_list),
                        points |-> IF Len(pca_polydata_list) = 0 THEN 0
                                   ELSE pca_polydata_list[1].points] >>
    /\ stack' = Advance(Frame("860"), 75)
    /\ UNCHANGED <<chosen, New_Folder_Selected, Already_Running, reseting_state, EV,
                   num_tuples, pca_polydata_list, pca_files, output_shape, rendered,
                   fitted_coefficients, written, raised>>

\* A surface as GetParameterisedShape leaves it: the model and the number of
\* coefficients it was computed from; defined is FALSE when values beyond the
\* model's eigenvalues went into it.
Shape(points, build, params, defined) ==
    [points |-> points, build |-> build, tuples |-> Len(params), defined |-> defined]

\* Lines 861-890: the first surface is copied, the five coefficients are read.
ExtractMean ==
    /\ At("860")
    /\ output_shape' = << Shape(IF Len(pca_polydata_list) = 0 THEN 0
                               ELSE pca_polydata_list[1].points, 0, <<>>, TRUE) >>
    /\ stack' = Advance([Frame("890") EXCEPT !.params = EV], 90)
    /\ UNCHANGED <<chosen, New_Folder_Selected, Already_Running, reseting_state, EV, NumEVs,
                   num_tuples, pca_model, pca_polydata_list, pca_files, rendered,
                   fitted_coefficients, written, raised>>

\* vtkPCAAnalysisFilter.GetParameterisedShape reads one eigenvalue and one
\* eigenvector per coefficient; the filter holds as many as it was given surfaces.
BeyondModes(params) == Len(params) > pca_model[1].meshes

\* The surfaces GetParameterisedShape(params, self.output_shape) can leave in
\* output_shape: unchanged when the point counts differ.
ParameterisedShapes(params) ==
    IF output_shape[1].points # pca_model[1].points THEN {output_shape[1]}
    ELSE {Shape(pca_model[1].points, pca_model[1].build, params, d) :
            d \in IF BeyondModes(params) THEN BOOLEAN ELSE {TRUE}}

\* Line 893 or 1336, up to the processEvents of line 900 or 1341.
GetParameterisedShape(at, next) ==
    /\ At(at)
    /\ IF output_shape = <<>>
       THEN /\ stack' = Return
            /\ raised' = "AttributeError"
            /\ UNCHANGED output_shape
       ELSE \/ /\ \E shape \in ParameterisedShapes(Top.params) : output_shape' = <<shape>>
               /\ stack' = Advance(Frame(next), 90)
               /\ UNCHANGED raised
            \/ /\ output_shape[1].points = pca_model[1].points
               /\ BeyondModes(Top.params)
               /\ stack' = <<Frame("crashed")>>
               /\ UNCHANGED <<output_shape, raised>>
    /\ UNCHANGED <<chosen, New_Folder_Selected, Already_Running, reseting_state, EV, NumEVs,
                   num_tuples, pca_model, pca_polydata_list, pca_files, rendered,
                   fitted_coefficients, written>>

\* Render_Surface and the release of the flag (lines 904-916, 1345-1348).
Render_Surface(at) ==
    /\ At(at)
    /\ rendered' = output_shape
    /\ Already_Running' = FALSE
    /\ stack' = Return
    /\ UNCHANGED <<chosen, New_Folder_Selected, reseting_state, EV, NumEVs, num_tuples,
                   pca_model, pca_polydata_list, pca_files, output_shape,
                   fitted_coefficients, written, raised>>

ApplyCoefficients == GetParameterisedShape("890", "900")
OutputModel == Render_Surface("900")

\* The test of line 1216: no model has been built.
NoModelIgnored == FALSE
NoModel == pca_model = <<>>

\* The fitting button: the three tests, up to the processEvents of line 1248.
onPCAFittingButtonClicked ==
    /\ ~Crashed
    /\ IF Directory_Input_Surfaces_Fitting = <<>>
       THEN /\ raised' = "ValueError"
            /\ UNCHANGED stack
       ELSE IF NoModel
       THEN /\ raised' = "ValueError"
            /\ UNCHANGED stack
       ELSE IF fitting_output_directory_path = <<>>
       THEN /\ raised' = "ValueError"
            /\ UNCHANGED stack
       ELSE /\ Len(stack) < MaxDepth
            /\ stack' = Append(stack, Frame("1248"))
            /\ raised' = "none"
    /\ UNCHANGED <<chosen, New_Folder_Selected, Already_Running, reseting_state, EV, NumEVs,
                   num_tuples, pca_model, pca_polydata_list, pca_files, output_shape,
                   rendered, fitted_coefficients, written>>

\* Line 1253: the loading of the fitting folder starts.
Fit_Begin ==
    /\ At("1248")
    /\ Load_Begin(Directory_Input_Surfaces_Fitting[1], TRUE)
    /\ UNCHANGED <<chosen, New_Folder_Selected, Already_Running, reseting_state, EV, NumEVs,
                   pca_model, output_shape, rendered>>

\* Lines 1101 and 1258: the fitting procedure returns.
Fit_Return ==
    /\ At("1101")
    /\ stack' = Return
    /\ UNCHANGED <<chosen, New_Folder_Selected, Already_Running, reseting_state, EV, NumEVs,
                   num_tuples, pca_model, pca_polydata_list, pca_files, output_shape,
                   rendered, fitted_coefficients, written, raised>>

\* The time slider of the fitted coefficients is moved: lines 1261-1333.
onTimeSelectSlider_FittedChange ==
    /\ ~Crashed
    /\ IF pca_model = <<>>
       THEN /\ raised' = "ValueError"
            /\ UNCHANGED <<Already_Running, reseting_state, EV, stack>>
       ELSE IF Running
       THEN /\ raised' = "none"
            /\ UNCHANGED <<Already_Running, reseting_state, EV, stack>>
       ELSE /\ Len(stack) < MaxDepth
            /\ Already_Running' = TRUE
            /\ IF fitted_coefficients = <<>>
               THEN /\ raised' = "AttributeError"
                    /\ UNCHANGED <<reseting_state, EV, stack>>
               ELSE \E value \in EVValues :
                      LET cols == fitted_coefficients[1].cols
                          fitted_EV == [k \in 1..cols |-> value]
                      IN  IF cols < NumSliders
                          THEN /\ reseting_state' = TRUE
                               /\ EV' = [k \in 1..NumSliders |->
                                           IF k <= cols THEN fitted_EV[k] ELSE EV[k]]
                               /\ raised' = "IndexError"
                               /\ UNCHANGED stack
                          ELSE /\ reseting_state' = FALSE
                               /\ EV' = [k \in 1..NumSliders |-> fitted_EV[k]]
                               /\ stack' = Append(stack,
                                     [Frame("1333") EXCEPT !.params = fitted_EV,
                                                           !.passed = <<50>>])
                               /\ raised' = "none"
    /\ UNCHANGED <<chosen, New_Folder_Selected, NumEVs, num_tuples, pca_model,
                   pca_polydata_list, pca_files, output_shape, rendered,
                   fitted_coefficients, written>>

ApplyFitted == GetParameterisedShape("1333", "1341")
OutputFitted == Render_Surface("1341")

\* -------------------------------------------------------------------- Init
\* The widget as setup() leaves it.
InitWidget ==
    /\ lineedit = <<-1>>
    /\ ref_label = 0
    /\ slider_min = 0
    /\ slider_max = 0
    /\ num_files = -1
    /\ Save_Extracted_Bones_Separately = FALSE
    /\ Save_Registered_Bones_Separately = FALSE
    /\ Skip_Registration = FALSE
    /\ Remove_Ref_Bone = FALSE
    /\ directory_chosen = FALSE
    /\ pc = "idle"
    /\ bone_labels = [kind |-> "none", vals |-> <<>>]
    /\ max_bone_label = 0
    /\ files = <<>>
    /\ file_list = 0
    /\ images_list = <<>>
    /\ polydata_list = [l \in 0..0 |-> <<>>]
    /\ reference_shapes = [l \in 0..0 |-> <<>>]
    /\ li = 1
    /\ fi = 0
    /\ output = {}
    /\ icp_calls = <<>>
    /\ error = "none"
    /\ progress = 0
    /\ InitSmoothing
    /\ InitSorting
    /\ InitKinematics

\* The widget in front of some input folder of NIfTI images.
Init ==
    /\ folder \in Folders
    /\ InitWidget

\* The widget in front of some input folder of files of any kind.
InitFiles ==
    /\ folder \in MixedFolders
    /\ InitWidget

\* ------------------------------------------------------- the user's inputs
\* Texts of the bone-label line edit: "-1", or "1", "1,2", ...
LineEditTexts == {<<-1>>} \cup { PyRange(1, k + 1) : k \in Labels }

\* onDirectoryButtonClick: the reference-bone slider takes its range from the
\* first listed file: minimum = lowest value + 1 (background is always present),
\* maximum = highest label, value = maximum - 1 kept within the range.
onDirectoryButtonClick ==
    /\ pc = "idle"
    /\ ~directory_chosen
    /\ directory_chosen' = TRUE
    /\ slider_min' = 0 + 1
    /\ slider_max' = Max(folder[1].present)
    /\ ref_label' = IF Max(folder[1].present) - 1 < 1 THEN 1 ELSE Max(folder[1].present) - 1
    /\ UNCHANGED <<folder, lineedit, num_files, Save_Extracted_Bones_Separately,
                   Save_Registered_Bones_Separately, Skip_Registration, Remove_Ref_Bone, run>>
    /\ UNCHANGED others

onRef_Bone_SliderChange ==
    /\ pc = "idle"
    /\ directory_chosen
    /\ \E v \in slider_min..slider_max : ref_label' = v
    /\ UNCHANGED <<folder, lineedit, slider_min, slider_max, num_files,
                   Save_Extracted_Bones_Separately, Save_Registered_Bones_Separately,
                   Skip_Registration, Remove_Ref_Bone, directory_chosen, run>>
    /\ UNCHANGED others

\* onNumSliderChange: the slider "Number of images" runs from -1 to the number
\* of files listed in the chosen folder (line 467).
onNumSliderChange ==
    /\ pc = "idle"
    /\ directory_chosen
    /\ \E value \in (-1..Len(folder)) \ {num_files} : num_files' = value
    /\ UNCHANGED <<folder, lineedit, ref_label, slider_min, slider_max,
                   Save_Extracted_Bones_Separately, Save_Registered_Bones_Separately,
                   Skip_Registration, Remove_Ref_Bone, directory_chosen, run>>
    /\ UNCHANGED others

EditBoneLabels ==
    /\ pc = "idle"
    /\ \E t \in LineEditTexts : lineedit' = t
    /\ UNCHANGED <<folder, ref_label, slider_min, slider_max, num_files,
                   Save_Extracted_Bones_Separately, Save_Registered_Bones_Separately,
                   Skip_Registration, Remove_Ref_Bone, directory_chosen, run>>
    /\ UNCHANGED others

ToggleSaveExtracted ==
    /\ pc = "idle"
    /\ Save_Extracted_Bones_Separately' = ~Save_Extracted_Bones_Separately
    /\ UNCHANGED <<folder, lineedit, ref_label, slider_min, slider_max, num_files,
                   Save_Registered_Bones_Separately, Skip_Registration, Remove_Ref_Bone,
                   directory_chosen, run>>
    /\ UNCHANGED others

ToggleSaveRegistered ==
    /\ pc = "idle"
    /\ Save_Registered_Bones_Separately' = ~Save_Registered_Bones_Separately
    /\ UNCHANGED <<folder, lineedit, ref_label, slider_min, slider_max, num_files,
                   Save_Extracted_Bones_Separately, Skip_Registration, Remove_Ref_Bone,
                   directory_chosen, run>>
    /\ UNCHANGED others

ToggleSkipRegistration ==
    /\ pc = "idle"
    /\ Skip_Registration' = ~Skip_Registration
    /\ UNCHANGED <<folder, lineedit, ref_label, slider_min, slider_max, num_files,
                   Save_Extracted_Bones_Separately, Save_Registered_Bones_Separately,
                   Remove_Ref_Bone, directory_chosen, run>>
    /\ UNCHANGED others

ToggleRemoveRefBone ==
    /\ pc = "idle"
    /\ Remove_Ref_Bone' = ~Remove_Ref_Bone
    /\ UNCHANGED <<folder, lineedit, ref_label, slider_min, slider_max, num_files,
                   Save_Extracted_Bones_Separately, Save_Registered_Bones_Separately,
                   Skip_Registration, directory_chosen, run>>
    /\ UNCHANGED others

\* --------------------------------------------------------------- onCompute
\* Position after (li, fi) in "for label in bone_labels: for i in range(n)".
NextLi == IF fi + 1 < file_list THEN li ELSE li + 1
NextFi == IF fi + 1 < file_list THEN fi + 1 ELSE 0
\* The nested loop has no iteration left.
LoopDone == li > Len(bone_labels.vals) \/ file_list = 0
\* Lines 607-608, 682-683 and 699-700: the loops of the extraction and of the
\* two registration passes over every (label, file) pair.
ExtractDone == LoopDone
\* (mutant of Pass1Done: the first pass is left after the first label)
Pass1DoneEarly == li > 1 \/ file_list = 0
Pass1Done == LoopDone
Pass2Done == LoopDone
\* Lines 716 and 728: the loops over the files.
Pass3Done == fi >= file_list
ExportDone == fi >= file_list
\* The label of the current iteration.
CurLabel == bone_labels.vals[li]

\* Lines 604-613 and 680-688: iter and iter_bar count the iterations made.
IterBar == (li - 1) * file_list + fi
\* Lines 696-710: iter_bar counts the iterations of the other labels only.
Pass2IterBar ==
    Cardinality({k \in 1..(li - 1) : bone_labels.vals[k] # ref_label}) * file_list + fi
\* Lines 611, 686 and 708: setValue(base + float(iter)/(labels*files)*100/5);
\* the bar takes the integer part.
FifthOfBar(base, iter) == base + (iter * 20) \div (Len(bone_labels.vals) * file_list)

Fail(what) ==
    /\ pc' = "failed"
    /\ error' = what

\* Lines 513-553: parse the labels, list and sort the folder, apply the file
\* limit, create the per-label lists. The compute button is enabled only once
\* the folders are chosen.
ParsedLabels ==
    IF lineedit[1] = -1
    THEN [kind |-> "range", vals |-> PyRange(slider_min, slider_max + 1)]
    ELSE [kind |-> "ndarray", vals |-> lineedit]

onCompute_Start ==
    /\ pc = "idle"
    /\ directory_chosen
    /\ bone_labels' = ParsedLabels
    /\ max_bone_label' = Max(Range(ParsedLabels.vals))
    /\ files' = SortFiles(folder)
    /\ num_files' = IF num_files > Len(folder) THEN Len(folder) ELSE num_files
    /\ file_list' = IF num_files' = -1 THEN Len(folder) ELSE num_files'
    /\ polydata_list' = [l \in 0..Max(Range(ParsedLabels.vals)) |-> <<>>]
    /\ images_list' = <<>>
    /\ fi' = 0
    /\ li' = 1
    /\ pc' = "load"
    /\ UNCHANGED <<folder, lineedit, ref_label, slider_min, slider_max,
                   Save_Extracted_Bones_Separately, Save_Registered_Bones_Separately,
                   Skip_Registration, Remove_Ref_Bone, directory_chosen,
                   reference_shapes, output, icp_calls, error>>
    /\ UNCHANGED progress
    /\ UNCHANGED others

\* Lines 555-602: one iteration of the loading loop (only names ending in
\* "nii" are loaded); after the last one file_list becomes range(len(images_list)).
LoadImage ==
    /\ pc = "load"
    /\ IF fi < file_list
       THEN /\ images_list' = IF files[fi + 1].ext = "nii"
                              THEN Append(images_list, files[fi + 1])
                              ELSE images_list
            /\ fi' = fi + 1
            /\ UNCHANGED <<file_list, pc, li>>
       ELSE /\ file_list' = Len(images_list)
            /\ fi' = 0
            /\ li' = 1
            /\ pc' = "extract"
            /\ UNCHANGED images_list
    /\ UNCHANGED <<config, bone_labels, max_bone_label, files, polydata_list,
                   reference_shapes, output, icp_calls, error>>
    /\ progress' = IF fi < file_list THEN (fi * 10) \div file_list ELSE progress
    /\ UNCHANGED others

\* Lines 606-628: one iteration of the extraction loop.
ExtractStep ==
    /\ pc = "extract"
    /\ IF ExtractDone
       THEN /\ pc' = "saveExtracted"
            /\ UNCHANGED <<polydata_list, li, fi>>
       ELSE /\ polydata_list' =
                 [polydata_list EXCEPT ![CurLabel] =
                     Append(@, Extract_Surface(images_list[fi + 1], CurLabel, fi + 1))]
            /\ li' = NextLi
            /\ fi' = NextFi
            /\ UNCHANGED pc
    /\ UNCHANGED <<config, bone_labels, max_bone_label, files, file_list, images_list,
                   reference_shapes, output, icp_calls, error>>
    /\ progress' = IF ExtractDone THEN progress ELSE FifthOfBar(10, IterBar)
    /\ UNCHANGED others

\* Writing files of distinct paths: a file of the same path is replaced.
WriteFiles(dir, new) ==
    {f \in dir : \A g \in new : g.path # f.path} \cup new

\* Lines 630-640: the extracted bones, one PLY file per (label, position).
ExtractedBoneFiles ==
    { [path |-> <<"Bone", bone_labels.vals[k], i>>,
       content |-> polydata_list[bone_labels.vals[k]][i + 1]] :
        k \in 1..Len(bone_labels.vals), i \in 0..(file_list - 1) }

\* (mutant of SkipChecked: the checkbox is not read)
SkipCheckedNever == FALSE
\* Line 643: the test of the Skip Registration Steps checkbox.
SkipChecked == Skip_Registration

\* Lines 630-657: save the extracted bones if asked, and return if the
\* registration is skipped.
SaveExtracted ==
    /\ pc = "saveExtracted"
    /\ output' = IF Save_Extracted_Bones_Separately
                 THEN WriteFiles(output, ExtractedBoneFiles)
                 ELSE output
    /\ pc' = IF SkipChecked THEN "done" ELSE "refShapes"
    /\ UNCHANGED <<config, bone_labels, max_bone_label, files, file_list, images_list,
                   polydata_list, reference_shapes, li, fi, icp_calls, error>>
    /\ progress' = IF SkipChecked THEN 100 ELSE 50
    /\ UNCHANGED others

\* Lines 667-676: the reference shape of each label is the surface of the first
\* volunteer. polydata_list[label][0] raises IndexError when no image was loaded.
ReferenceShapes ==
    /\ pc = "refShapes"
    /\ IF file_list = 0
       THEN /\ Fail("IndexError:676")
            /\ UNCHANGED <<reference_shapes, li, fi>>
       ELSE /\ reference_shapes' =
                 [l \in 0..max_bone_label |->
                    IF l \in Range(bone_labels.vals) THEN <<polydata_list[l][1]>> ELSE <<>>]
            /\ li' = 1
            /\ fi' = 0
            /\ pc' = "pass1"
            /\ UNCHANGED error
    /\ UNCHANGED <<config, bone_labels, max_bone_label, files, file_list, images_list,
                   polydata_list, output, icp_calls>>
    /\ UNCHANGED progress
    /\ UNCHANGED others

\* ------------------------------------------------------------ registration
\* Line 691: the ICP source and target of the first registration of (label, i).
\* (mutant of Pass1Source: the source is read back from polydata_list)
Pass1SourceFromList(pl, rs, label, i) == pl[label][1]
Pass1Source(pl, rs, label, i) == rs[label][1]
Pass1Target(pl, rs, label, i) == pl[label][i + 1]

\* Lines 713 and 717: the ICP source and target of the reference-bone
\* registrations of subject i, and the surface the transform is applied to.
\* (mutant of RefSource: the source is subject 0's reference bone)
RefSourceSubject0(pl, i) == pl[ref_label][1]
RefSource(pl, i) == pl[ref_label][i + 1]
\* (mutant of RefTarget: the subject's reference bone is aligned onto itself)
RefTargetSelf(pl, i) == pl[ref_label][i + 1]
RefTarget(pl, i) == pl[ref_label][1]
\* (mutant of Pass2Moved: the transform is applied to the reference bone)
Pass2MovedRefBone(pl, label, i) == pl[ref_label][i + 1]
Pass2Moved(pl, label, i) == pl[label][i + 1]
Pass3Moved(pl, i) == pl[ref_label][i + 1]

\* (mutant of IsRefLabel: the second loop skips no label)
IsRefLabelNever(label) == FALSE
\* Line 705: the label the second loop skips.
IsRefLabel(label) == label = ref_label

\* polydata_list[self.ref_label][0] raises IndexError: the reference label is
\* beyond the list, or no surface was extracted for it.
RefBoneMissing(pl) ==
    \/ ref_label \notin DOMAIN pl
    \/ Len(pl[ref_label]) = 0

\* Line 691: the call of one iteration of the first registration loop.
Pass1Call(pl, rs, label, i) ==
    IcpCall("pass1", label, i, Pass1Source(pl, rs, label, i),
            Pass1Target(pl, rs, label, i), NoReference)

\* Line 713: the call of one iteration of the second loop (label # ref_label).
Pass2Call(pl, label, i) ==
    IcpCall("pass2", label, i, RefSource(pl, i), RefTarget(pl, i), Pass2Moved(pl, label, i))

\* (mutant of Pass3Call: the reference bone of subject i is aligned onto itself)
Pass3CallOntoItself(pl, i) ==
    IcpCall("pass3", ref_label, i, RefSource(pl, i), RefSource(pl, i), Pass3Moved(pl, i))
\* Line 717: the call of one iteration of the last loop.
Pass3Call(pl, i) ==
    IcpCall("pass3", ref_label, i, RefSource(pl, i), RefTarget(pl, i), Pass3Moved(pl, i))

\* The list after the assignment polydata_list[label][i] = <result>.
Assign(pl, label, i, surface) == [pl EXCEPT ![label][i + 1] = surface]

\* (mutant of Pass2Iter: the moved surface is stored as the reference bone)
Pass2IterOnRefBone(pl, label, i) ==
    IF IsRefLabel(label) THEN pl
    ELSE Assign(pl, ref_label, i, Pass2Call(pl, label, i).result)
\* Line 713: the list after one iteration of the second loop.
Pass2Iter(pl, label, i) ==
    IF IsRefLabel(label) THEN pl
    ELSE Assign(pl, label, i, Pass2Call(pl, label, i).result)

\* Line 717: the list after one iteration of the last loop.
Pass3Iter(pl, i) == Assign(pl, ref_label, i, Pass3Call(pl, i).result)

\* Lines 699-713: the list after the first m iterations of the second loop over
\* the labels, n files each, and after the whole loop.
RECURSIVE Pass2Upto(_, _, _, _)
Pass2Upto(pl, labels, n, m) ==
    IF m = 0 THEN pl
    ELSE Pass2Iter(Pass2Upto(pl, labels, n, m - 1),
                   labels[((m - 1) \div n) + 1], (m - 1) % n)

Pass2All(pl, labels, n) == Pass2Upto(pl, labels, n, Len(labels) * n)

\* Lines 716-717: the list after the first m iterations of the last loop, and
\* after the whole loop over n files.
RECURSIVE Pass3Upto(_, _)
Pass3Upto(pl, m) ==
    IF m = 0 THEN pl ELSE Pass3Iter(Pass3Upto(pl, m - 1), m - 1)

Pass3All(pl, n) == Pass3Upto(pl, n)

\* Lines 682-694: one iteration of the first registration loop.
Pass1Step ==
    /\ pc = "pass1"
    /\ IF Pass1Done
       THEN /\ pc' = "pass2"
            /\ li' = 1
            /\ fi' = 0
            /\ UNCHANGED <<polydata_list, icp_calls>>
       ELSE /\ polydata_list' = Assign(polydata_list, CurLabel, fi,
                                       Pass1Call(polydata_list, reference_shapes, CurLabel, fi).result)
            /\ icp_calls' = Append(icp_calls,
                                   Pass1Call(polydata_list, reference_shapes, CurLabel, fi))
            /\ li' = NextLi
            /\ fi' = NextFi
            /\ UNCHANGED pc
    /\ UNCHANGED <<config, bone_labels, max_bone_label, files, file_list, images_list,
                   reference_shapes, output, error>>
    /\ progress' = IF Pass1Done THEN progress ELSE FifthOfBar(50, IterBar)
    /\ UNCHANGED others

\* Lines 699-713: one iteration of the second loop; the reference label is skipped.
Pass2Step ==
    /\ pc = "pass2"
    /\ IF Pass2Done
       THEN /\ pc' = "pass3"
            /\ li' = 1
            /\ fi' = 0
            /\ UNCHANGED <<polydata_list, icp_calls, error>>
       ELSE IF IsRefLabel(CurLabel)
       THEN /\ li' = NextLi
            /\ fi' = NextFi
            /\ UNCHANGED <<pc, polydata_list, icp_calls, error>>
       ELSE IF RefBoneMissing(polydata_list)
       THEN /\ Fail("IndexError:713")
            /\ UNCHANGED <<polydata_list, icp_calls, li, fi>>
       ELSE /\ polydata_list' = Pass2Iter(polydata_list, CurLabel, fi)
            /\ icp_calls' = Append(icp_calls, Pass2Call(polydata_list, CurLabel, fi))
            /\ li' = NextLi
            /\ fi' = NextFi
            /\ UNCHANGED <<pc, error>>
    /\ UNCHANGED <<config, bone_labels, max_bone_label, files, file_list, images_list,
                   reference_shapes, output>>
    /\ progress' = IF Pass2Done THEN progress
                   ELSE IF IsRefLabel(CurLabel) THEN progress
                   ELSE FifthOfBar(70, Pass2IterBar)
    /\ UNCHANGED others

\* Lines 716-717: one iteration of the loop registering the reference bone.
Pass3Step ==
    /\ pc = "pass3"
    /\ IF Pass3Done
       THEN /\ pc' = "removeRef"
            /\ fi' = 0
            /\ UNCHANGED <<polydata_list, icp_calls, error>>
       ELSE IF RefBoneMissing(polydata_list)
       THEN /\ Fail("IndexError:717")
            /\ UNCHANGED <<polydata_list, icp_calls, fi>>
       ELSE /\ polydata_list' = Pass3Iter(polydata_list, fi)
            /\ icp_calls' = Append(icp_calls, Pass3Call(polydata_list, fi))
            /\ fi' = fi + 1
            /\ UNCHANGED <<pc, error>>
    /\ UNCHANGED <<config, bone_labels, max_bone_label, files, file_list, images_list,
                   reference_shapes, li, output>>
    /\ UNCHANGED progress
    /\ UNCHANGED others

\* ------------------------------------------------------------------ export
\* Lines 723-725. self.bone_labels == self.ref_label compares element by element
\* only when bone_labels is the array np.fromstring made; for the range of the
\* "-1" setting it is the single value False, np.argwhere of it is empty and
\* np.delete removes nothing.
LabelsAfterRemoval(bl) ==
    IF bl.kind = "ndarray"
    THEN [kind |-> "ndarray", vals |-> SelectSeq(bl.vals, LAMBDA x : x # ref_label)]
    ELSE [kind |-> "ndarray", vals |-> bl.vals]

RemoveRefBone ==
    /\ pc = "removeRef"
    /\ bone_labels' = IF Remove_Ref_Bone THEN LabelsAfterRemoval(bone_labels) ELSE bone_labels
    /\ pc' = "save"
    /\ fi' = 0
    /\ UNCHANGED <<config, max_bone_label, files, file_list, images_list, polydata_list,
                   reference_shapes, li, output, icp_calls, error>>
    /\ UNCHANGED progress
    /\ UNCHANGED others

\* Lines 739-741: the bones of volunteer i, in the order of bone_labels.
BonesOf(i) == [k \in 1..Len(bone_labels.vals) |-> polydata_list[bone_labels.vals[k]][i + 1]]

\* Line 767: the combined file is named after self.files[i] without its last
\* four characters.
CombinedPath(i) == <<"combined", files[i + 1].stem, 0>>

\* Lines 774-781: the registered bones of volunteer i, one file per label.
RegisteredBoneFiles(i) ==
    { [path |-> <<"Position", i, bone_labels.vals[k]>>,
       content |-> polydata_list[bone_labels.vals[k]][i + 1]] :
        k \in 1..Len(bone_labels.vals) }

\* Lines 728-781: one iteration of the saving loop; lines 783-792 after the last.
ExportStep ==
    /\ pc = "save"
    /\ IF ExportDone
       THEN /\ pc' = "done"
            /\ UNCHANGED <<output, fi>>
       ELSE /\ output' =
                 WriteFiles(
                    WriteFiles(output, {[path |-> CombinedPath(fi),
                                         content |-> Combine_Surfaces(BonesOf(fi))]}),
                    IF Save_Registered_Bones_Separately THEN RegisteredBoneFiles(fi) ELSE {})
            /\ fi' = fi + 1
            /\ UNCHANGED pc
    /\ UNCHANGED <<config, bone_labels, max_bone_label, files, file_list, images_list,
                   polydata_list, reference_shapes, li, icp_calls, error>>
    /\ progress' = IF ExportDone THEN 100 ELSE 90 + (fi * 10) \div file_list
    /\ UNCHANGED others

\* ----------------------------------------------------------- specification
Next ==
    \/ onDirectoryButtonClick
    \/ onRef_Bone_SliderChange
    \/ EditBoneLabels
    \/ ToggleSaveExtracted
    \/ ToggleSaveRegistered
    \/ ToggleSkipRegistration
    \/ ToggleRemoveRefBone
    \/ onCompute_Start
    \/ LoadImage
    \/ ExtractStep
    \/ SaveExtracted
    \/ ReferenceShapes
    \/ Pass1Step
    \/ Pass2Step
    \/ Pass3Step
    \/ RemoveRefBone
    \/ ExportStep

Spec == Init /\ [][Next]_vars

\* The run under every file limit, over folders of files of any kind, the other
\* options as setup() leaves them.
NextFiles ==
    \/ onDirectoryButtonClick
    \/ onNumSliderChange
    \/ ToggleSkipRegistration
    \/ onCompute_Start
    \/ LoadImage
    \/ ExtractStep
    \/ SaveExtracted
    \/ ReferenceShapes
    \/ Pass1Step
    \/ Pass2Step
    \/ Pass3Step
    \/ RemoveRefBone
    \/ ExportStep

SpecFiles == InitFiles /\ [][NextFiles]_vars

\* The training-data widget before any folder is chosen.
TrainingAtRest ==
    /\ InitWidget
    /\ folder = CHOOSE f \in Folders : Len(f) = 1 /\ f[1].present = Labels

\* Smooth_Surface under every setting of the smoothing options.
NextSmoothing ==
    \/ onBone_Smoothing_Its_SliderChange /\ UNCHANGED besidesSmoothing
    \/ onBone_Decimate_SliderChange /\ UNCHANGED besidesSmoothing
    \/ Smooth_Surface_Call /\ UNCHANGED besidesSmoothing
    \/ BoneNormals /\ UNCHANGED besidesSmoothing
    \/ CleanPolyData /\ UNCHANGED besidesSmoothing
    \/ SmoothingFilter /\ UNCHANGED besidesSmoothing
    \/ DecimatePro /\ UNCHANGED besidesSmoothing
    \/ CleanPolyData2 /\ UNCHANGED besidesSmoothing
    \/ Normals /\ UNCHANGED besidesSmoothing
    \/ Smooth_Surface_Return /\ UNCHANGED besidesSmoothing

SpecSmoothing == TrainingAtRest /\ [][NextSmoothing]_vars

\* The sorting of every listing of file names.
NextSorting ==
    \/ ListFolder /\ UNCHANGED besidesSorting
    \/ SortListing /\ UNCHANGED besidesSorting

SpecSorting == TrainingAtRest /\ [][NextSorting]_vars

\* A handler is called by Qt: at rest, or from a processEvents call of a body
\* under way.
Delivered ==
    /\ stack # <<>> => delivered < MaxDelivered
    /\ delivered' = IF stack = <<>> THEN 0 ELSE delivered + 1

\* A body under way goes on to its next processEvents call, or returns.
Continued == delivered' = IF stack' = <<>> THEN 0 ELSE delivered

\* The PCA_Kinematics widget: every handler, delivered when the widget is at
\* rest or at a processEvents call of a handler body under way.
NextKinematics ==
    \/ PCA_onDirectoryButtonClick /\ Delivered /\ UNCHANGED besidesKinematics
    \/ onDirectorySurfaceFittingButtonClick /\ Delivered /\ UNCHANGED besidesKinematics
    \/ onDirectoryFittingOutputButtonClick /\ Delivered /\ UNCHANGED besidesKinematics
    \/ onComputeButton /\ Delivered /\ UNCHANGED besidesKinematics
    \/ onFirstEVSliderChange /\ Delivered /\ UNCHANGED besidesKinematics
    \/ onSecondEVSliderChange /\ Delivered /\ UNCHANGED besidesKinematics
    \/ onThirdEVSliderChange /\ Delivered /\ UNCHANGED besidesKinematics
    \/ onFourthEVSliderChange /\ Delivered /\ UNCHANGED besidesKinematics
    \/ onFifthEVSliderChange /\ Delivered /\ UNCHANGED besidesKinematics
    \/ onResetButton /\ Delivered /\ UNCHANGED besidesKinematics
    \/ Compute_Begin /\ Continued /\ UNCHANGED besidesKinematics
    \/ LoadFile /\ Continued /\ UNCHANGED besidesKinematics
    \/ CreateModel /\ Continued /\ UNCHANGED besidesKinematics
    \/ ExtractMean /\ Continued /\ UNCHANGED besidesKinematics
    \/ ApplyCoefficients /\ Continued /\ UNCHANGED besidesKinematics
    \/ OutputModel /\ Continued /\ UNCHANGED besidesKinematics
    \/ onPCAFittingButtonClicked /\ Delivered /\ UNCHANGED besidesKinematics
    \/ Fit_Begin /\ Continued /\ UNCHANGED besidesKinematics
    \/ Fit_Return /\ Continued /\ UNCHANGED besidesKinematics
    \/ onTimeSelectSlider_FittedChange /\ Delivered /\ UNCHANGED besidesKinematics
    \/ ApplyFitted /\ Continued /\ UNCHANGED besidesKinematics
    \/ OutputFitted /\ Continued /\ UNCHANGED besidesKinematics

SpecKinematics == TrainingAtRest /\ [][NextKinematics]_vars


TypeOK ==
    /\ pc \in {"idle", "load", "extract", "saveExtracted", "refShapes", "pass1", "pass2",
               "pass3", "removeRef", "save", "done", "failed"}
    /\ fi \in 0..MaxSubjects
    /\ li \in 1..(MaxLabel + 1)

\* ================================================================ properties
\* The labels this run processes (the configuration is fixed while a run is
\* under way), and the subjects it loaded.
RunLabels == Range(ParsedLabels.vals)
Subjects == 0..(file_list - 1)
Registering == pc \in {"pass1", "pass2", "pass3", "removeRef", "save"}
                \/ (pc = "done" /\ ~Skip_Registration)

CallIdx(pass) == {k \in DOMAIN icp_calls : icp_calls[k].pass = pass}
HasCall(pass, label, i) ==
    \E k \in CallIdx(pass) : icp_calls[k].label = label /\ icp_calls[k].i = i
PassRank(pass) == CASE pass = "pass1" -> 1 [] pass = "pass2" -> 2 [] OTHER -> 3
CombinedFiles == {f \in output : f.path[1] = "combined"}

\* The surface Extract_Surface gave for label l of subject i.
ExtractedSurface(l, i) == Extract_Surface(images_list[i + 1], l, i + 1)

C2_Pass1 ==
    /\ \A k \in CallIdx("pass1") :
          LET c == icp_calls[k] IN
          /\ c.source = ExtractedSurface(c.label, 0)
          /\ c.target = ExtractedSurface(c.label, c.i)
          /\ c.reference = NoReference
          /\ c.result.topo = <<c.label, 1>>
          /\ c.result.npts = ExtractedSurface(c.label, 0).npts
          /\ c.result.by = <<"pass1", c.label, c.i + 1>>
          /\ pc = "pass1" => polydata_list[c.label][c.i + 1] = c.result
    /\ pc = "pass1" =>
          \A l \in RunLabels : reference_shapes[l] = <<ExtractedSurface(l, 0)>>
    /\ (Registering /\ pc # "pass1") =>
          \A l \in RunLabels, i \in Subjects : HasCall("pass1", l, i)

\* Pass 1 has aligned a later subject after BoneSet[L][0] was replaced.
C2_Witness ==
    \E k \in CallIdx("pass1") :
        /\ icp_calls[k].i >= 1
        /\ polydata_list[icp_calls[k].label][1].by[1] = "pass1"
        /\ icp_calls[k].target.pose # icp_calls[k].source.pose

\* The last call logged by a step that made one.
NewCall == icp_calls'[Len(icp_calls')]
RefAlignmentStep ==
    /\ pc \in {"pass2", "pass3"}
    /\ Len(icp_calls') = Len(icp_calls) + 1

\* C3 as the spec states it: in every alignment of pass 2 and pass 3 for subject
\* i the source is BoneSet[referenceLabel][0] and the target is
\* BoneSet[referenceLabel][i].
C3_Original ==
    [][RefAlignmentStep =>
         /\ NewCall.source = polydata_list[ref_label][1]
         /\ NewCall.target = polydata_list[ref_label][NewCall.i + 1]]_vars

\* C3 (amended): in every alignment of pass 2 and pass 3 for subject i the source
\* is BoneSet[referenceLabel][i] and the target is BoneSet[referenceLabel][0], as
\* they stand when the call is made; the transform found is applied to
\* BoneSet[label][i] of the non-reference label at hand in pass 2 and to
\* BoneSet[referenceLabel][i] itself in pass 3, and the moved surface replaces
\* that entry and no other.
C3_RefAlignment ==
    [][RefAlignmentStep =>
         /\ NewCall.source = polydata_list[ref_label][NewCall.i + 1]
         /\ NewCall.target = polydata_list[ref_label][1]
         /\ NewCall.i = fi
         /\ pc = "pass2" => NewCall.label = CurLabel /\ NewCall.label # ref_label
         /\ pc = "pass3" => NewCall.label = ref_label
         /\ NewCall.reference = polydata_list[NewCall.label][NewCall.i + 1]
         /\ NewCall.result.topo = NewCall.reference.topo
         /\ NewCall.result.pose = (NewCall.reference.pose + NewCall.T) % NumPoses
         /\ polydata_list' =
               [polydata_list EXCEPT ![NewCall.label][NewCall.i + 1] = NewCall.result]]_vars

\* Pass 2 and pass 3 have each aligned a subject other than the first whose
\* reference bone lies elsewhere than subject 0's.
C3_Witness ==
    /\ \E k \in CallIdx("pass2") :
          icp_calls[k].i >= 1 /\ icp_calls[k].T # 0
    /\ \E k \in CallIdx("pass3") :
          icp_calls[k].i >= 1 /\ icp_calls[k].T # 0

\* The BoneSet as pass 1 left it, read from the log of its alignments.
AfterPass1 ==
    [l \in DOMAIN polydata_list |->
        [p \in 1..Len(polydata_list[l]) |->
            icp_calls[CHOOSE k \in CallIdx("pass1") :
                         icp_calls[k].label = l /\ icp_calls[k].i = p - 1].result]]

\* The protocol from the end of pass 1 on, in the order of the code and with
\* pass 2 and pass 3 swapped.
RequiredOrder(pl, labels, n) == Pass3All(Pass2All(pl, labels, n), n)
SwappedOrder(pl, labels, n) == Pass2All(Pass3All(pl, n), labels, n)

\* The point set of a surface: which points, in which order, where.
Points(surface) == [topo |-> surface.topo, npts |-> surface.npts, pose |-> surface.pose]

\* Pass 3 has to move the reference bone of subject i: it is present in subject
\* i and in subject 0 and placed differently.
RefMisaligned(i) ==
    /\ ref_label \in images_list[i + 1].present
    /\ ref_label \in images_list[1].present
    /\ images_list[i + 1].pose # images_list[1].pose

C5_Correspondence ==
    /\ (Registering /\ pc # "pass1") =>
          \A l \in RunLabels, i \in Subjects :
              /\ polydata_list[l][i + 1].topo = <<l, 1>>
              /\ polydata_list[l][i + 1].npts = ExtractedSurface(l, 0).npts
    /\ \A k \in CallIdx("pass2") \cup CallIdx("pass3") :
          /\ icp_calls[k].result.topo = <<icp_calls[k].label, 1>>
          /\ icp_calls[k].result.npts = ExtractedSurface(icp_calls[k].label, 0).npts
    /\ \A f, g \in CombinedFiles :
          /\ f.content.npts = g.content.npts
          /\ Len(f.content.parts) = Len(g.content.parts)
          /\ \A k \in 1..Len(f.content.parts) :
                /\ f.content.parts[k].topo = g.content.parts[k].topo
                /\ f.content.parts[k].offset = g.content.parts[k].offset

\* Three subjects whose extractions differ in point count were registered and
\* combined, each combined file holding two bones.
C5_Witness ==
    /\ pc = "done"
    /\ Cardinality(CombinedFiles) = 3
    /\ \A f \in CombinedFiles : Len(f.content.parts) = 2 /\ f.content.npts > 0
    /\ \E l \in RunLabels :
          ExtractedSurface(l, 0).npts # ExtractedSurface(l, 1).npts

\* The labels the spec retains for export: all of the run's labels, without the
\* reference label when Remove_Ref_Bone is checked.
Retained ==
    SelectSeq(ParsedLabels.vals, LAMBDA l : ~(Remove_Ref_Bone /\ l = ref_label))

\* C6: a completed run over N subjects has written exactly N combined files,
\* one per subject, and the combined file of subject i holds the registered
\* surface BoneSet[L][i] of every retained label L, in order, and nothing else.
C6_Export ==
    (pc = "done" /\ ~Skip_Registration) =>
        /\ Cardinality(CombinedFiles) = file_list
        /\ \A i \in Subjects :
              \E f \in CombinedFiles :
                  /\ f.path = CombinedPath(i)
                  /\ Len(f.content.parts) = Len(Retained)
                  /\ \A k \in 1..Len(Retained) :
                        /\ f.content.parts[k].topo = polydata_list[Retained[k]][i + 1].topo
                        /\ f.content.parts[k].pose = polydata_list[Retained[k]][i + 1].pose
                        /\ f.content.parts[k].npts = polydata_list[Retained[k]][i + 1].npts

\* Pass 3 has not begun.
BeforePass3 == pc \in {"pass1", "pass2"} \/ (pc = "pass3" /\ fi = 0)

\* C7 as the spec states it: before pass 3 begins BoneSet[referenceLabel][0] is
\* neither replaced nor transformed: it is the surface the extraction gave.
C7_Original ==
    (BeforePass3 /\ ref_label \in RunLabels) =>
        polydata_list[ref_label][1] = ExtractedSurface(ref_label, 0)

\* C7 (amended): before pass 3 begins BoneSet[referenceLabel][0] is replaced
\* only by pass 1, whose alignment of the reference shape onto itself finds the
\* identity, so it keeps the points of the subject-0 extraction where they
\* were; pass 2 never writes it, and the reference shape pass 1 uses as source
\* stays the extracted surface.
C7_RefShapeUntouched ==
    (BeforePass3 /\ ref_label \in RunLabels) =>
        /\ Points(polydata_list[ref_label][1]) = Points(ExtractedSurface(ref_label, 0))
        /\ polydata_list[ref_label][1].by \in
              {<<"extract", ref_label, 1>>, <<"pass1", ref_label, 1>>}
        /\ \A k \in CallIdx("pass1") :
              (icp_calls[k].label = ref_label /\ icp_calls[k].i = 0) =>
                  icp_calls[k].source = icp_calls[k].target /\ icp_calls[k].T = 0
        /\ \A k \in CallIdx("pass2") : icp_calls[k].label # ref_label
        /\ reference_shapes[ref_label] = <<ExtractedSurface(ref_label, 0)>>

\* Pass 2 has moved the bones of some subject and pass 3 is about to begin,
\* BoneSet[referenceLabel][0] being the output of pass 1.
C7_Witness ==
    /\ pc = "pass3"
    /\ fi = 0
    /\ ref_label \in RunLabels
    /\ polydata_list[ref_label][1].by = <<"pass1", ref_label, 1>>
    /\ \E k \in CallIdx("pass2") : icp_calls[k].T # 0

\* C8: with Remove_Ref_Bone checked no combined file and no separately saved
\* registered bone holds the reference bone, whether the labels come from the
\* "-1" setting or from a list; unchecked, every combined file holds it.
C8_RemoveRefBone ==
    /\ (pc \in {"save", "done"} /\ Remove_Ref_Bone) =>
          \A f \in output :
              /\ f.path[1] = "combined" =>
                    \A k \in 1..Len(f.content.parts) :
                        f.content.parts[k].topo[1] # ref_label
              /\ f.path[1] = "Position" => f.path[3] # ref_label
    /\ (pc \in {"save", "done"} /\ ~Remove_Ref_Bone /\ ref_label \in RunLabels) =>
          \A f \in CombinedFiles :
              \E k \in 1..Len(f.content.parts) : f.content.parts[k].topo[1] = ref_label

\* C9: a run that aborted has written no file to the output folder.
C9_NoPartialExport ==
    pc = "failed" => output = {}

\* A surface with fewer than 4 points (the empty surface of an absent label).
Degenerate(surface) == surface.npts < 4

\* C10: no alignment returns a result for a degenerate source or target, and a
\* run in which a label is missing from a volume does not complete.
C10_DegenerateFails ==
    /\ \A k \in DOMAIN icp_calls :
          ~Degenerate(icp_calls[k].source) /\ ~Degenerate(icp_calls[k].target)
    /\ (pc = "done" /\ ~Skip_Registration) =>
          \A l \in RunLabels, i \in Subjects : ~Degenerate(ExtractedSurface(l, i))

\* The stages the spec lists, in its order, each with the condition under which
\* the spec has it run.
CanonicalPipeline ==
    << [stage |-> "normals",  runs |-> TRUE],
       [stage |-> "clean",    runs |-> TRUE],
       [stage |-> "smooth",   runs |-> smoothing_iterations > 0],
       [stage |-> "decimate", runs |-> decimate_surface > 0 /\ decimate_surface < 100],
       [stage |-> "clean",    runs |-> TRUE],
       [stage |-> "normals",  runs |-> TRUE] >>

\* The number of pipeline positions a Smooth_Surface call has gone through.
Passed ==
    CASE mesh_pc = "boneNormals" -> 0
      [] mesh_pc = "cleanPolyData" -> 1
      [] mesh_pc = "smoothingFilter" -> 2
      [] mesh_pc = "deci" -> 3
      [] mesh_pc = "cleanPolyData2" -> 4
      [] mesh_pc = "normals" -> 5
      [] mesh_pc = "return" -> 6
      [] OTHER -> 0

\* The stages of the first n positions that run, in order.
RECURSIVE StagesUpto(_)
StagesUpto(n) ==
    IF n = 0 THEN <<>>
    ELSE IF CanonicalPipeline[n].runs
         THEN Append(StagesUpto(n - 1), CanonicalPipeline[n].stage)
         ELSE StagesUpto(n - 1)

\* C11: at every point of a Smooth_Surface call the filters run so far are the
\* stages of the canonical order normals, weld, smooth, decimate, weld, normals
\* up to that point, smooth among them exactly when smoothing_iterations > 0
\* and decimate exactly when 0 < decimate_surface < 1; the surface returned has
\* gone through both welds and both normal computations, and its last two
\* stages are a weld and a normal computation, after any smoothing or
\* decimation.
C11_Pipeline ==
    /\ mesh_pc # "idle" => stages = StagesUpto(Passed)
    /\ mesh_pc = "idle" => stages = <<>>
    /\ mesh_pc = "return" =>
          /\ SubSeq(stages, 1, 2) = <<"normals", "clean">>
          /\ SubSeq(stages, Len(stages) - 1, Len(stages)) = <<"clean", "normals">>
          /\ ("smooth" \in Range(stages)) <=> (smoothing_iterations > 0)
          /\ ("decimate" \in Range(stages)) <=>
                (decimate_surface > 0 /\ decimate_surface < 100)
          /\ \A k \in DOMAIN stages :
                stages[k] \in {"smooth", "decimate"} => k <= Len(stages) - 2
          /\ Len(stages) = 4 + (IF smoothing_iterations > 0 THEN 1 ELSE 0)
                             + (IF decimate_surface > 0 THEN 1 ELSE 0)

\* A surface was returned that was decimated and not smoothed.
C11_Witness ==
    /\ mesh_pc = "return"
    /\ smoothing_iterations = 0
    /\ decimate_surface = 50
    /\ stages = <<"normals", "clean", "decimate", "clean", "normals">>

\* The names listed, and where a name stands in a list of distinct names.
Listed == Range(listing)
PlaceIn(list, x) == CHOOSE k \in DOMAIN list : list[k] = x
Sorted == sorted_files # <<>>

\* The runs of every name and the comparison of every two names, tabulated.
RunsOf == [n \in Names |-> re_split(n)]
Compared == [x \in Names, y \in Names |-> KeyLess(x, y)]

\* x sorts strictly before y; neither sorts before the other.
Precedes(x, y) == Compared[x, y] = "lt"
Tied(x, y) == ~Precedes(x, y) /\ ~Precedes(y, x)

\* Two names that differ only in one numeric run, x's the smaller integer.
SmallerNumericRun(x, y) ==
    /\ Len(RunsOf[x]) = Len(RunsOf[y])
    /\ \E k \in DOMAIN RunsOf[x] :
          /\ k % 2 = 0
          /\ IntOf(RunsOf[x][k]) < IntOf(RunsOf[y][k])
          /\ \A j \in DOMAIN RunsOf[x] : j # k => RunsOf[x][j] = RunsOf[y][j]

\* Two names that differ only in the leading zeros of their numeric runs.
SameButLeadingZeros(x, y) ==
    /\ Len(RunsOf[x]) = Len(RunsOf[y])
    /\ \A k \in DOMAIN RunsOf[x] :
          IF k % 2 = 0 THEN IntOf(RunsOf[x][k]) = IntOf(RunsOf[y][k])
          ELSE RunsOf[x][k] = RunsOf[y][k]

\* C12 as the spec states it: of two names that differ only in a numeric run
\* the one with the smaller integer sorts first, and the sort key orders the
\* names totally: of two different names one sorts strictly before the other.
C12_Original ==
    Sorted =>
        /\ \A x, y \in Listed :
              SmallerNumericRun(x, y) =>
                  PlaceIn(sorted_files, x) < PlaceIn(sorted_files, y)
        /\ \A x, y \in Listed : x # y => Precedes(x, y) \/ Precedes(y, x)

\* C12 (amended): alphanum_key splits a name into text and digit runs in turn
\* and digit runs compare as integers; no comparison of two keys raises; of two
\* names that differ only in a numeric run the one with the smaller integer
\* sorts first; the order of the keys is total up to ties (two names compare
\* one way or tie, and both "before" and "tied" are transitive); two different
\* names tie exactly when they differ only in leading zeros of numeric runs
\* ("a1", "a01"), and tied names keep the order os.listdir gave them. The sorted
\* list holds the listed names, none before a name that precedes it.
C12_NaturalOrder ==
    Sorted =>
        /\ Len(sorted_files) = Len(listing)
        /\ Range(sorted_files) = Listed
        /\ \A i, j \in DOMAIN sorted_files :
              i < j => ~Precedes(sorted_files[j], sorted_files[i])
        /\ \A x, y \in Listed :
              /\ Compared[x, y] \in {"lt", "ge"}
              /\ ~(Precedes(x, y) /\ Precedes(y, x))
              /\ \A k \in DOMAIN alphanum_key(x) :
                    alphanum_key(x)[k].type = (IF k % 2 = 0 THEN "int" ELSE "str")
              /\ SmallerNumericRun(x, y) =>
                    PlaceIn(sorted_files, x) < PlaceIn(sorted_files, y)
              /\ Tied(x, y) <=> SameButLeadingZeros(x, y)
              /\ (Tied(x, y) /\ PlaceIn(listing, x) < PlaceIn(listing, y)) =>
                    PlaceIn(sorted_files, x) < PlaceIn(sorted_files, y)
              /\ \A z \in Names :
                    /\ (Precedes(x, y) /\ Precedes(y, z)) => Precedes(x, z)
                    /\ (Tied(x, y) /\ Tied(y, z)) => Tied(x, z)

\* "a10" and "a2" were listed in this order and sorted: "a2" comes first.
C12_Witness ==
    /\ listing = << <<"a", "1", "0">>, <<"a", "2">> >>
    /\ sorted_files = << <<"a", "2">>, <<"a", "1", "0">> >>

\* The loading loop is over: images_list holds the volumes of the run.
Loaded == pc \in {"extract", "saveExtracted", "refShapes", "pass1", "pass2", "pass3",
                  "removeRef", "save", "done", "failed"}
Min(a, b) == IF a <= b THEN a ELSE b

\* A file that is a segmented image of a documented format: a NIfTI file, or the
\* image file of an Analyze pair (its .hdr file is the header of the same image).
DocumentedImage(f) == f.ext \in {"nii", "img"}

\* The files the limit selects: all of them, or the first num_files in sorted order.
Selected == IF num_files = -1 THEN files ELSE SubSeq(files, 1, Min(num_files, Len(files)))

\* C13: with the limit at -1 every image file of the folder is a subject; with
\* a limit k >= 1 the subjects are exactly the first min(k, number of files)
\* files in sorted order, and a completed run has registered and exported
\* min(k, number of files) subjects.
C13_FileLimit ==
    /\ (Loaded /\ num_files = -1) =>
          images_list = SelectSeq(files, DocumentedImage)
    /\ (Loaded /\ num_files >= 1) =>
          /\ images_list = Selected
          /\ file_list = Min(num_files, Len(files))
    /\ (pc = "done" /\ ~Skip_Registration /\ num_files >= 1) =>
          /\ Cardinality({c.i : c \in {icp_calls[k] : k \in CallIdx("pass3")}})
                = Min(num_files, Len(files))
          /\ Cardinality(CombinedFiles) = Min(num_files, Len(files))

\* C14: with the "-1" setting the labels a run processes are exactly the labels
\* present in the first volume in sorted order, background left out.
C14_AutoLabels ==
    (pc # "idle" /\ lineedit = <<-1>>) =>
        Range(bone_labels.vals) = files[1].present

\* C15: every image of a documented format among the files the limit selects
\* is loaded: the number of loaded volumes is the number of such files.
C15_AllFormats ==
    Loaded =>
        Len(images_list) = Len(SelectSeq(Selected, DocumentedImage))


\* C23: pass 2 leaves the reference bone alone: no step of pass 2 changes
\* BoneSet[referenceLabel], every alignment of pass 2 reads as source and target
\* the reference-bone surfaces pass 1 left, and during the registration the
\* reference-bone entries change only in pass 1 and pass 3.
C23_Pass2Frame ==
    /\ [][(pc = "pass2" /\ ref_label \in DOMAIN polydata_list) =>
            polydata_list'[ref_label] = polydata_list[ref_label]]_vars
    /\ [][(pc = "pass2" /\ RefAlignmentStep) =>
            /\ NewCall.source = AfterPass1[ref_label][NewCall.i + 1]
            /\ NewCall.target = AfterPass1[ref_label][1]]_vars
    /\ [][(Registering /\ ref_label \in DOMAIN polydata_list
              /\ polydata_list'[ref_label] # polydata_list[ref_label]) =>
            pc \in {"pass1", "pass3"}]_vars

\* Pass 2 is under way and has moved a bone of a subject placed unlike subject 0.
C23_Witness ==
    /\ pc = "pass2"
    /\ ref_label \in RunLabels
    /\ \E k \in CallIdx("pass2") : icp_calls[k].i >= 1 /\ icp_calls[k].T # 0

\* C24: the bones of one subject move together: the alignments of pass 2 and
\* pass 3 for one subject find one and the same transform, from the same points
\* of the subject's reference bone onto the same points of subject 0's, also
\* after pass 3 has replaced subject 0's reference bone.
C24_MoveTogether ==
    \A k \in CallIdx("pass2"), m \in CallIdx("pass2") \cup CallIdx("pass3") :
        icp_calls[k].i = icp_calls[m].i =>
            /\ icp_calls[k].T = icp_calls[m].T
            /\ Points(icp_calls[k].source) = Points(icp_calls[m].source)
            /\ Points(icp_calls[k].target) = Points(icp_calls[m].target)

\* All three passes are over, and a subject after subject 0 was moved in pass 2,
\* two bones of it, and in pass 3, pass 3 having replaced subject 0's reference
\* bone before.
C24_Witness ==
    /\ pc = "removeRef"
    /\ \E k, n \in CallIdx("pass2") :
          /\ icp_calls[k].i = icp_calls[n].i
          /\ icp_calls[k].i >= 1
          /\ icp_calls[k].label # icp_calls[n].label
          /\ icp_calls[k].T # 0
    /\ polydata_list[ref_label][1].by = <<"pass3", ref_label, 1>>
    /\ \E k \in CallIdx("pass2"), m \in CallIdx("pass3") :
          /\ icp_calls[k].i = icp_calls[m].i
          /\ icp_calls[k].i >= 1
          /\ icp_calls[m].T # 0

\* C29: the combined file the export writes for subject i is named after the
\* image file the volume of subject i was loaded from, whatever other files the
\* input folder holds.
C29_ExportNaming ==
    [][(pc = "save" /\ ~ExportDone /\ ExportStep) =>
         \E f \in output' :
            /\ f.path = <<"combined", images_list[fi + 1].stem, 0>>
            /\ f.content = Combine_Surfaces(BonesOf(fi))]_vars

\* C30: a run with Skip Registration checked goes from the extraction to its
\* end: it makes no ICP call and writes no combined file, the output folder
\* holds nothing until the extraction is over and then exactly the extracted
\* surface of every (label, subject) pair if Save Extracted Bones Separately is
\* checked and nothing otherwise, and the run ends with the progress bar at 100.
C30_SkipRegistration ==
    (Skip_Registration /\ pc # "idle") =>
        /\ pc \in {"load", "extract", "saveExtracted", "done"}
        /\ icp_calls = <<>>
        /\ CombinedFiles = {}
        /\ pc # "done" => output = {}
        /\ pc = "done" =>
              /\ progress = 100
              /\ output = IF Save_Extracted_Bones_Separately
                          THEN { [path |-> <<"Bone", l, i>>, content |-> ExtractedSurface(l, i)] :
                                   l \in RunLabels, i \in Subjects }
                          ELSE {}

\* A run with both boxes checked has ended and has written the extracted
\* surfaces of two labels and two subjects.
C30_Witness ==
    /\ Skip_Registration /\ Save_Extracted_Bones_Separately
    /\ pc = "done"
    /\ Cardinality(RunLabels) >= 2
    /\ file_list >= 2
    /\ Cardinality(output) >= 4

\* ------------------------------------------------- PCA_KinematicsWidget claims
\* The surfaces of a listing do not all have the same number of points.
Uneven(listed) ==
    Cardinality({Surfaces(listed)[k].points : k \in DOMAIN Surfaces(listed)}) > 1

\* The step of onCompute that ends the loading of a training folder.
LoadEnds == At("1131") /\ Top.i = Len(Top.listed) /\ LoadFile

\* C16: when the surfaces loaded for a build do not all have the same number
\* of points, the loading ends with an error and the build goes no further:
\* pca_model, polydata_list and output_shape stay as they were, and the model
\* is only ever created from surfaces of one point count.
C16_MismatchRejected ==
    /\ [](At("848") => ~Uneven(pca_polydata_list))
    /\ [][(LoadEnds /\ Uneven(Top.listed)) =>
            /\ raised' = "ValueError"
            /\ stack' = Return
            /\ UNCHANGED <<pca_model, pca_polydata_list, output_shape>>]_vars

\* A rebuild from an uneven folder was rejected while a model was there.
C16_Witness ==
    /\ stack = <<>>
    /\ raised = "ValueError"
    /\ Already_Running = TRUE
    /\ pca_model # <<>>
    /\ output_shape # <<>>
    /\ New_Folder_Selected = FALSE
    /\ pca_directory_path # <<>>
    /\ Uneven(pca_directory_path[1])

\* C17: a shape is never computed from more coefficients than the model
\* retains modes, which is the number of its training surfaces minus one.
C17_ModeCount ==
    (output_shape # <<>> /\ pca_model # <<>> /\ output_shape[1].build = pca_model[1].build) =>
        output_shape[1].tuples <= pca_model[1].meshes - 1

\* A request for a computation: a handler that calls onCompute, or the time
\* slider of the fitted coefficients.
ComputeRequest ==
    \/ onComputeButton
    \/ onFirstEVSliderChange \/ onSecondEVSliderChange \/ onThirdEVSliderChange
    \/ onFourthEVSliderChange \/ onFifthEVSliderChange
    \/ onResetButton
    \/ onTimeSelectSlider_FittedChange

\* The bodies of onCompute and of onTimeSelectSlider_FittedChange under way.
ComputeBodies ==
    {k \in DOMAIN stack :
        \/ stack[k].at \in {"830", "848", "860", "890", "900", "1333", "1341"}
        \/ stack[k].at = "1131" /\ ~stack[k].fitting}

\* C18: at most one body of onCompute or onTimeSelectSlider_FittedChange is
\* under way at any time, and a request that arrives while one is under way
\* starts nothing and leaves it, the model, the output shape and the rendered
\* surface as they are.
C18_SingleFlight ==
    /\ [](Cardinality(ComputeBodies) <= 1)
    /\ [][(ComputeBodies # {} /\ ComputeRequest) =>
            UNCHANGED <<stack, Already_Running, pca_model, output_shape, rendered>>]_vars

\* A slider was moved after the body under way had read the coefficients.
C18_Witness ==
    /\ At("890")
    /\ Top.params # EV
    /\ Already_Running = TRUE

\* C19: the model is replaced only by a build that follows the choice of a
\* training folder, a computation without a new folder keeps the model, and
\* a request made at rest after a training folder was chosen starts the
\* computation that rebuilds the model.
C19_RebuildOnNewFolder ==
    /\ [][pca_model' # pca_model => (At("848") /\ CreateModel)]_vars
    /\ [][(At("830") /\ Compute_Begin /\ pca_model # <<>> /\ New_Folder_Selected = FALSE) =>
            (Len(stack') = Len(stack) /\ Top'.at = "890" /\ Top'.params = EV)]_vars
    /\ [][(stack = <<>> /\ New_Folder_Selected = TRUE /\ onComputeButton) =>
            (stack' = <<Frame("830")>>)]_vars

C28_GuardReleased ==
    /\ [](ComputeBodies = {} => Already_Running = FALSE)
    /\ [][(stack = <<>> /\ pca_directory_path # <<>> /\ onComputeButton) =>
            (stack' = <<Frame("830")>>)]_vars

\* C26: a change of the time slider that finds a model, no computation under
\* way and a coefficient table, of however many columns, goes on to apply to the
\* model a vector of one interpolated coefficient per column of the table.
C26_OnePerColumn ==
    [][(/\ onTimeSelectSlider_FittedChange
        /\ pca_model # <<>>
        /\ ~Running
        /\ fitted_coefficients # <<>>) =>
         /\ Len(stack') = Len(stack) + 1
         /\ Top'.at = "1333"
         /\ Len(Top'.params) = fitted_coefficients[1].cols]_vars

\* C25: the values a body of the PCA_Kinematics widget has passed to
\* progressBar.setValue, the loading of surfaces included, lie in 0..100 and
\* never decrease.
C25_ProgressMonotone ==
    \A k \in DOMAIN stack :
        /\ \A j \in DOMAIN stack[k].passed : stack[k].passed[j] \in 0..100
        /\ \A j \in 1..(Len(stack[k].passed) - 1) :
              stack[k].passed[j] <= stack[k].passed[j + 1]

\* The step of the fitting procedure that ends the loading of the fitting
\* folder and runs Fit_Polydata to its end.
FitEnds ==
    /\ At("1131") /\ Top.fitting /\ LoadFile
    /\ Len(stack') = Len(stack) /\ Top'.at = "1101"

\* C27: the coefficient table a fitting run computes has as many columns as the
\* model it was fitted with has modes, the number of its training surfaces
\* minus one.
C27_FittedLength ==
    [][FitEnds => fitted_coefficients'[1].cols = pca_model[1].meshes - 1]_vars

\* C21: the coefficient table a fitting run computes and writes has one row per
\* surface file of the fitting folder, in the order of the sorted listing, and
\* the list of file names written beside it names the same files in that order.
C21_FittedExport ==
    [][FitEnds =>
         /\ fitted_coefficients'[1].rows = SurfaceNames(Top.listed)
         /\ written'[1].Fitted_Model_Coefficients.rows = SurfaceNames(Top.listed)
         /\ written'[1].Files_Fitted = SurfaceNames(Top.listed)]_vars

====
